---- MODULE Spec2Model ----
(***************************************************************************)
(* Model of the IIoT telemetry simulator (sensors/src): the run-to-failure *)
(* lifecycle engine (prediction_engine.py), the topology builder, the      *)
(* resilient broker connection and the publish loop (main.py), and the     *)
(* sensor factory (sensor_factory.py).                                     *)
(*                                                                         *)
(* Strings built by f-strings are sequences of string tokens, so that      *)
(* formatting and joining are computed and two topics are equal exactly    *)
(* when their characters are.  The readings the loop publishes are         *)
(* symbolic: a reading records what it was computed from.  The sensor      *)
(* models are computed in thousandths of the unit from enumerated random   *)
(* draws.  The prediction service (ai_service/main.py) is modelled next to *)
(* the script: its startup event and its /predict-rul endpoint.            *)
(***************************************************************************)
EXTENDS Integers, Sequences, FiniteSets, TLC

VARIABLES
    config,             \* main.py:17   the loaded configuration
    prediction_engine,  \* main.py:30   the single PredictionEngine object
    active_sensors,     \* main.py:35   the registry
    next_obj,           \* identity of the next sensor object create_sensor builds
    pc,                 \* position of the main script
    error,              \* the exception that ended the script, "none" while it runs
    broker_up,          \* whether the broker accepts connections and publishes
    client,             \* the mqtt client: connected, background loop running
    item,               \* main.py:133  index of the registry entry being served
    start_time,         \* main.py:127
    sleep_time,         \* main.py:165, main.py:118  argument of the pending sleep
    wall_clock,         \* what time.time() returns
    mono_clock,         \* true time elapsed since the tick started
    tick_msgs,          \* publish calls made in the current tick, in order
    last_rc,            \* return code of the most recent publish call
    advances,           \* step() calls made by clients since the last reset
    has_reset,          \* whether a step() has ever restarted the lifecycle
    steps_this_tick,    \* step() calls made by the loop in the current tick
    attempts,           \* connect attempts that have failed (saturating)
    produced,           \* main.py:144 the most recent simulate() call of a sensor
    service,            \* ai_service/main.py:20-21 the globals model and scaler
    response            \* ai_service/main.py:80 the answer to the last POST /predict-rul

vars == <<config, prediction_engine, active_sensors, next_obj, pc, error,
          broker_up, client, item, start_time, sleep_time, wall_clock,
          mono_clock, tick_msgs, last_rc, advances, has_reset,
          steps_this_tick, attempts, produced, service, response>>

\* What the script's own steps never touch: the outcome of a sensor call
\* looked at on its own, and the prediction service.
apart == <<produced, service, response>>

\* ---------------------------------------------------------------- bounds

MaxCount == 2
MaxTemplate == 3
MaxAssets == 2
MaxTicks == 2
MaxWork == 2
MaxSkew == 1
MaxAttempts == 2
MaxInterval == 2

\* ---------------------------------------------------------------- strings

IntToStr(n) == <<"1", "2", "3", "4", "5", "6", "7", "8", "9">>[n]

\* An identifier that leaves the index out.
FormatIdNoIndex(prefix, n) == <<prefix, "_">>

\* f"{prefix}_{n}"
FormatId(prefix, n) == <<prefix, "_", IntToStr(n)>>

\* f"{a}/{b}"
Slash(a, b) == a \o <<"/">> \o b

\* ------------------------------------------------------- lifecycle engine

LifeMin == 800
LifeMax == 2000
ExponentMin == 4
ExponentMax == 6

\* The uniform draws of one reset, in tenths for the signal levels: the low
\* corner of the configured ranges.
LowProfile ==
    [exponent |-> ExponentMin,
     vib_base |-> 5, vib_failure |-> 80,
     temp_base |-> 850, temp_failure |-> 1520,
     curr_base |-> 880, curr_failure |-> 1120]

\* The high corner of the configured ranges.
HighProfile ==
    [exponent |-> ExponentMax - 1,
     vib_base |-> 15, vib_failure |-> 100,
     temp_base |-> 950, temp_failure |-> 1600,
     curr_base |-> 920, curr_failure |-> 1200]

\* Everything reset_lifecycle draws.  np.random.randint(800, 2000) gives the
\* two ends of its range and one inner value.
Draws ==
    { [total_life |-> LifeMin, profile |-> LowProfile],
      [total_life |-> LifeMin + 1, profile |-> HighProfile],
      [total_life |-> LifeMax - 1, profile |-> LowProfile] }

\* (current_tick / total_life) ** exponent, kept as the three numbers it is
\* computed from.
fault_progression(tick, total_life, exponent) ==
    [tick |-> tick, total_life |-> total_life, exponent |-> exponent]

\* base + ((failure - base) * fault_progression) + noise, rounded
Signal(kind, base, failure, fp) ==
    [kind |-> kind, base |-> base, failure |-> failure, progression |-> fp]

\* self.current_values = {} of __init__
NoValues == [motor_id |-> <<>>]

\* A dictionary whose temperature and current are computed after the tick
\* has been incremented.
CachedValuesTickEarly(s, fp) ==
    LET late == [fp EXCEPT !.tick = @ + 1]
    IN  [motor_id |-> s.motor_id,
         vibration |-> Signal("vibration", s.vib_base, s.vib_failure, fp),
         temperature |-> Signal("temperature", s.temp_base, s.temp_failure, late),
         current |-> Signal("current", s.curr_base, s.curr_failure, late)]

\* The dictionary step() caches.
CachedValues(s, fp) ==
    [motor_id |-> s.motor_id,
     vibration |-> Signal("vibration", s.vib_base, s.vib_failure, fp),
     temperature |-> Signal("temperature", s.temp_base, s.temp_failure, fp),
     current |-> Signal("current", s.curr_base, s.curr_failure, fp)]

RECURSIVE step(_, _)
RECURSIVE reset_lifecycle(_, _)

\* reset_lifecycle draws the new parameters, sets the tick to 0 and ends by
\* calling step() itself.
reset_lifecycle(self, d) ==
    step([self EXCEPT !.total_life = d.total_life,
                      !.current_tick = 0,
                      !.exponent = d.profile.exponent,
                      !.vib_base = d.profile.vib_base,
                      !.vib_failure = d.profile.vib_failure,
                      !.temp_base = d.profile.temp_base,
                      !.temp_failure = d.profile.temp_failure,
                      !.curr_base = d.profile.curr_base,
                      !.curr_failure = d.profile.curr_failure], d)

\* A step() that resets one call late: only once the tick is past total_life.
stepPastEnd(self, d) ==
    LET s == IF self.current_tick > self.total_life
             THEN reset_lifecycle(self, d)
             ELSE self
        fp == fault_progression(s.current_tick, s.total_life, s.exponent)
    IN  [s EXCEPT !.current_values = CachedValues(s, fp),
                  !.current_tick = s.current_tick + 1]

\* step(): the reset when the lifecycle is over, then the values of the
\* current tick, then the increment.  The reset has already run a whole
\* step() when the statements after it run.
step(self, d) ==
    LET s == IF self.current_tick >= self.total_life
             THEN reset_lifecycle(self, d)
             ELSE self
        fp == fault_progression(s.current_tick, s.total_life, s.exponent)
    IN  [s EXCEPT !.current_values = CachedValues(s, fp),
                  !.current_tick = s.current_tick + 1]

\* PredictionEngine(motor_id)
NewEngine(motor_id, d) ==
    reset_lifecycle([motor_id |-> motor_id, current_values |-> NoValues,
                     total_life |-> 0, current_tick |-> 0, exponent |-> 0,
                     vib_base |-> 0, vib_failure |-> 0,
                     temp_base |-> 0, temp_failure |-> 0,
                     curr_base |-> 0, curr_failure |-> 0], d)

\* The reading get_value returns for a key the dictionary does not hold.
DefaultReading == [kind |-> "default"]

\* current_values.get(sensor_type, 0.0)
get_value(self, sensor_type) ==
    IF sensor_type \in DOMAIN self.current_values
    THEN self.current_values[sensor_type]
    ELSE DefaultReading

\* Whether a step() of this engine restarts the lifecycle.
LifecycleOver(self) == self.current_tick >= self.total_life

\* --------------------------------------------------------- sensor factory

KnownTypes == {"vibration", "temperature", "current"}

\* A type create_sensor has no class for.
UnknownType == "pressure"

AllTypes == KnownTypes \cup {UnknownType}

\* GenericSensor.__init__: the fields every sensor class keeps.
GenericSensor(class, sensor_config, id) ==
    [class |-> class,
     id |-> id,
     type |-> sensor_config.type,
     unit |-> sensor_config.unit,
     min |-> sensor_config.min,
     max |-> sensor_config.max,
     base_val |-> sensor_config.base_val,
     warning_threshold |-> sensor_config.thresholds.warning,
     critical_threshold |-> sensor_config.thresholds.critical]

\* create_sensor: the object of the class of the type, or the ValueError.
create_sensor(sensor_config, id) ==
    LET sensor_type == sensor_config.type
    IN  IF sensor_type = "vibration"
        THEN [raised |-> "none",
              obj |-> GenericSensor("VibrationSensor", sensor_config, id)]
        ELSE IF sensor_type = "temperature"
        THEN [raised |-> "none",
              obj |-> GenericSensor("TemperatureSensor", sensor_config, id)]
        ELSE IF sensor_type = "current"
        THEN [raised |-> "none",
              obj |-> GenericSensor("CurrentSensor", sensor_config, id)]
        ELSE [raised |-> "ValueError"]

\* ------------------------------------------------------------ configuration

\* One entry of templates.standard_motor, levels in hundredths of the unit.
TemplateEntry(type) ==
    IF type = "vibration"
    THEN [type |-> type, unit |-> "g", min |-> 0, max |-> 50,
          base_val_avg |-> 10, base_val_variance |-> 2,
          thresholds |-> [warning |-> 14, critical |-> 23]]
    ELSE IF type = "temperature"
    THEN [type |-> type, unit |-> "C", min |-> 2000, max |-> 12000,
          base_val_avg |-> 6000, base_val_variance |-> 500,
          thresholds |-> [warning |-> 8000, critical |-> 10000]]
    ELSE IF type = "current"
    THEN [type |-> type, unit |-> "A", min |-> 0, max |-> 15000,
          base_val_avg |-> 9000, base_val_variance |-> 300,
          thresholds |-> [warning |-> 11000, critical |-> 13000]]
    ELSE [type |-> type, unit |-> "bar", min |-> 0, max |-> 1000,
          base_val_avg |-> 500, base_val_variance |-> 50,
          thresholds |-> [warning |-> 700, critical |-> 900]]

\* The sequences of length 1..n over the types that name no type twice.
TypeLists(n) ==
    { t \in UNION { [1..k -> AllTypes] : k \in 1..n } :
        \A i, j \in DOMAIN t : t[i] = t[j] => i = j }

StandardTypes == <<"vibration", "temperature", "current">>

\* random.uniform(-variance, variance): both ends and the middle, as the
\* multiple of the variance that is added.
VarianceDraws == {-1, 0, 1}

Config(ns, sp, nl, lp, na, ap, types, interval) ==
    [topology |->
        [sectors |-> [count |-> ns, prefix |-> sp],
         lines_per_sector |-> [count |-> nl, prefix |-> lp],
         assets_per_line |-> [count |-> na, prefix |-> ap]],
     templates |->
        [standard_motor |-> [k \in DOMAIN types |-> TemplateEntry(types[k])]],
     simulation |-> [interval_seconds |-> interval]]

\* Configurations of the whole program: one line of one sector with up to
\* MaxAssets motors, named as PREDICTION_ID expects or otherwise, with the
\* standard template or one that holds an unknown type.
ProgramConfigs ==
    { Config(1, "sector", 1, "line", na, ap, types, interval) :
        na \in 1..MaxAssets, ap \in {"engine", "motor"},
        types \in {StandardTypes, <<"vibration", UnknownType, "current">>},
        interval \in {1} }

\* Configurations for the timing of the loop: the designated motor alone,
\* published every 1..MaxInterval time units.
TimingConfigs ==
    { Config(1, "sector", 1, "line", 1, "engine", StandardTypes, interval) :
        interval \in 1..MaxInterval }

\* The configuration for the connection loop: the designated motor alone.
LiveConfigs ==
    { Config(1, "sector", 1, "line", 1, "engine", StandardTypes, 1) }

\* The configuration of a long run: the designated motor and one more.
LongRunConfigs ==
    { Config(1, "sector", 1, "line", 2, "engine", StandardTypes, 1) }

\* Configurations of the topology builder alone.
TopologyConfigs ==
    { Config(ns, "sector", nl, "line", na, ap, types, 1) :
        ns \in 1..MaxCount, nl \in 1..MaxCount,
        na \in 1..MaxCount, ap \in {"engine", "motor"},
        types \in TypeLists(MaxTemplate) }

\* --------------------------------------------------------- topology builder

\* PREDICTION_ID = "sector_1/line_1/engine_1"
PREDICTION_ID ==
    <<"sector", "_", "1", "/", "line", "_", "1", "/", "engine", "_", "1">>

\* sensor_entry['obj'] = prediction_engine: a reference to the one engine.
EngineRef == [class |-> "PredictionEngine", id |-> 0]

\* is_prediction_engine = (full_id == PREDICTION_ID)
IsPredictionEngine(full_id) == full_id = PREDICTION_ID

\* The body of "for template_sensor in motor_template", from entry k on.  st
\* is what the script has built: the registry, the next object identity and
\* the exception raised, which ends every loop.
RECURSIVE TemplateLoop(_, _, _, _, _)
TemplateLoop(cfg, full_id, k, u, st) ==
    LET motor_template == cfg.templates.standard_motor
    IN  IF st.raised # "none" \/ k > Len(motor_template) THEN st
        ELSE
        LET template_sensor == motor_template[k]
            sensor_type == template_sensor.type
            topic == Slash(full_id, <<sensor_type>>)
            is_prediction_engine == IsPredictionEngine(full_id)
            sensor_entry ==
                [topic |-> topic,
                 type |-> sensor_type,
                 unit |-> template_sensor.unit,
                 limits |->
                    [warning_threshold |-> template_sensor.thresholds.warning,
                     critical_threshold |-> template_sensor.thresholds.critical]]
            unique_base_val ==
                template_sensor.base_val_avg + u * template_sensor.base_val_variance
            sensor_conf == template_sensor @@ ("base_val" :> unique_base_val)
            made == create_sensor(sensor_conf, st.next_obj)
            after ==
                IF is_prediction_engine
                THEN [st EXCEPT !.active_sensors =
                        Append(@, sensor_entry @@ ("obj" :> EngineRef)
                                               @@ ("mode" :> "prediction_engine"))]
                ELSE IF made.raised # "none"
                THEN [st EXCEPT !.raised = made.raised]
                ELSE [st EXCEPT !.active_sensors =
                        Append(@, sensor_entry @@ ("obj" :> made.obj)
                                               @@ ("mode" :> "standard")),
                                !.next_obj = @ + 1]
        IN  TemplateLoop(cfg, full_id, k + 1, u, after)

\* "for a in range(1, count + 1)", from asset a on.
RECURSIVE AssetLoop(_, _, _, _, _, _)
AssetLoop(cfg, sector_id, line_id, a, u, st) ==
    IF st.raised # "none" \/ a > cfg.topology.assets_per_line.count THEN st
    ELSE
    LET asset_id == FormatId(cfg.topology.assets_per_line.prefix, a)
        full_id == Slash(Slash(sector_id, line_id), asset_id)
    IN  AssetLoop(cfg, sector_id, line_id, a + 1, u,
                  TemplateLoop(cfg, full_id, 1, u, st))

\* "for l in range(1, count + 1)", from line l on.
RECURSIVE LineLoop(_, _, _, _, _)
LineLoop(cfg, sector_id, l, u, st) ==
    IF st.raised # "none" \/ l > cfg.topology.lines_per_sector.count THEN st
    ELSE
    LET line_id == FormatId(cfg.topology.lines_per_sector.prefix, l)
    IN  LineLoop(cfg, sector_id, l + 1, u,
                 AssetLoop(cfg, sector_id, line_id, 1, u, st))

\* "for s in range(1, count + 1)", from sector s on.
RECURSIVE SectorLoop(_, _, _, _)
SectorLoop(cfg, s, u, st) ==
    IF st.raised # "none" \/ s > cfg.topology.sectors.count THEN st
    ELSE
    LET sector_id == FormatId(cfg.topology.sectors.prefix, s)
    IN  SectorLoop(cfg, s + 1, u, LineLoop(cfg, sector_id, 1, u, st))

\* Section 2 of the script: active_sensors = [] and the four nested loops.
BuildTopology(cfg, u) ==
    SectorLoop(cfg, 1, u, [active_sensors |-> <<>>, next_obj |-> 1, raised |-> "none"])

\* ------------------------------------------------------------- the script

\* time.sleep(5) of the connection loop
RETRY_DELAY == 5

\* The positions inside the try statement of section 4.
TryPcs == {"tick_start", "step", "fanout", "elapsed", "sleep"}

\* The positions at which the script has ended.
EndPcs == {"crashed", "stopped"}

\* No sensor has been asked for a reading.
NotProduced == [branch |-> "none"]

\* The prediction service before its startup event.
NotStarted == [started |-> FALSE, model |-> FALSE, scaler |-> FALSE]

\* No request has been answered.
NoResponse == [status_code |-> 0]

\* The state after lines 1..30: the configuration is loaded and the engine
\* constructed; nothing is built, connected or published.
InitWith(configs, draws, brokers) ==
    /\ config \in configs
    /\ \E d \in draws : prediction_engine = NewEngine(PREDICTION_ID, d)
    /\ active_sensors = <<>>
    /\ next_obj = 1
    /\ pc = "build"
    /\ error = "none"
    /\ broker_up \in brokers
    /\ client = [connected |-> FALSE, loop_running |-> FALSE]
    /\ item = 0
    /\ start_time = 0
    /\ sleep_time = 0
    /\ wall_clock = 0
    /\ mono_clock = 0
    /\ tick_msgs = <<>>
    /\ last_rc = "none"
    /\ advances = 0
    /\ has_reset = FALSE
    /\ steps_this_tick = 0
    /\ attempts = 0
    /\ produced = NotProduced
    /\ service = NotStarted
    /\ response = NoResponse

Init == InitWith(ProgramConfigs, Draws, BOOLEAN)

\* Section 2: the registry is built, or create_sensor's ValueError ends the
\* script with what had been appended so far.
Build ==
    /\ pc = "build"
    /\ \E u \in VarianceDraws :
        LET st == BuildTopology(config, u)
        IN  /\ active_sensors' = st.active_sensors
            /\ next_obj' = st.next_obj
            /\ error' = st.raised
            /\ pc' = IF st.raised = "none" THEN "connect" ELSE "crashed"
    /\ UNCHANGED <<apart, config, prediction_engine, broker_up, client, item,
                   start_time, sleep_time, wall_clock, mono_clock, tick_msgs,
                   last_rc, advances, has_reset, steps_this_tick, attempts>>

\* attempts counts the failures up to MaxAttempts and stays there.
CountAttempt(n) == IF n < MaxAttempts THEN n + 1 ELSE n

\* A connection loop that lets the first failure end the script.
AfterConnectErrorGiveUp == "crashed"

\* Where the connection loop goes when client.connect raises.
AfterConnectError == "retry_sleep"

\* client.connect(BROKER, PORT, 60) returns: break.
ConnectOk ==
    /\ pc = "connect"
    /\ broker_up
    /\ client' = [client EXCEPT !.connected = TRUE]
    /\ pc' = "loop_start"
    /\ UNCHANGED <<apart, config, prediction_engine, active_sensors, next_obj, error,
                   broker_up, item, start_time, sleep_time, wall_clock,
                   mono_clock, tick_msgs, last_rc, advances, has_reset,
                   steps_this_tick, attempts>>

\* client.connect raises: except Exception, then time.sleep(5).
ConnectFail ==
    /\ pc = "connect"
    /\ ~broker_up
    /\ attempts' = CountAttempt(attempts)
    /\ sleep_time' = RETRY_DELAY
    /\ pc' = AfterConnectError
    /\ UNCHANGED <<apart, config, prediction_engine, active_sensors, next_obj, error,
                   broker_up, client, item, start_time, wall_clock, mono_clock,
                   tick_msgs, last_rc, advances, has_reset, steps_this_tick>>

\* time.sleep(5) returns: the next turn of "while True".
RetryWake ==
    /\ pc = "retry_sleep"
    /\ sleep_time' = 0
    /\ pc' = "connect"
    /\ UNCHANGED <<apart, config, prediction_engine, active_sensors, next_obj, error,
                   broker_up, client, item, start_time, wall_clock, mono_clock,
                   tick_msgs, last_rc, advances, has_reset, steps_this_tick,
                   attempts>>

\* client.loop_start()
LoopStart ==
    /\ pc = "loop_start"
    /\ client' = [client EXCEPT !.loop_running = TRUE]
    /\ pc' = "enter_try"
    /\ UNCHANGED <<apart, config, prediction_engine, active_sensors, next_obj, error,
                   broker_up, item, start_time, sleep_time, wall_clock,
                   mono_clock, tick_msgs, last_rc, advances, has_reset,
                   steps_this_tick, attempts>>

\* try: the two probabilities are read and "while True" is entered.
EnterTry ==
    /\ pc = "enter_try"
    /\ pc' = "tick_start"
    /\ UNCHANGED <<apart, config, prediction_engine, active_sensors, next_obj, error,
                   broker_up, client, item, start_time, sleep_time, wall_clock,
                   mono_clock, tick_msgs, last_rc, advances, has_reset,
                   steps_this_tick, attempts>>

\* start_time = time.time().  Both clocks are read from the start of the
\* tick on, so a tick starts at 0.
TickStart ==
    /\ pc = "tick_start"
    /\ wall_clock' = 0
    /\ mono_clock' = 0
    /\ start_time' = wall_clock'
    /\ sleep_time' = 0
    /\ tick_msgs' = <<>>
    /\ last_rc' = "none"
    /\ steps_this_tick' = 0
    /\ item' = 0
    /\ pc' = "step"
    /\ UNCHANGED <<apart, config, prediction_engine, active_sensors, next_obj, error,
                   broker_up, client, advances, has_reset, attempts>>

\* The ticks a bounded run still starts.
TickBudgetLeft == prediction_engine.current_tick <= MaxTicks

\* What a step() call of a client does to the engine and to the counts kept
\* about it.
StepEngine ==
    /\ \E d \in Draws : prediction_engine' = step(prediction_engine, d)
    /\ advances' = IF LifecycleOver(prediction_engine) THEN 1 ELSE advances + 1
    /\ has_reset' = (has_reset \/ LifecycleOver(prediction_engine))

\* prediction_engine.step(), then "for item in active_sensors" begins.
LoopStep ==
    /\ pc = "step"
    /\ StepEngine
    /\ steps_this_tick' = steps_this_tick + 1
    /\ item' = 1
    /\ pc' = "fanout"
    /\ UNCHANGED <<apart, config, active_sensors, next_obj, error, broker_up, client,
                   start_time, sleep_time, wall_clock, mono_clock, tick_msgs,
                   last_rc, attempts>>

\* sensor.simulate(normal_state_prob, warning_state_prob) of a sensor object:
\* a reading of that object.
simulate(sensor) == [kind |-> "simulated", sensor |-> sensor.id]

\* Lines 134..155: the reading of the entry and its payload.
Message(entry) ==
    LET valore == IF entry.mode = "prediction_engine"
                  THEN get_value(prediction_engine, entry.type)
                  ELSE simulate(entry.obj)
    IN  [topic |-> entry.topic,
         mode |-> entry.mode,
         type |-> entry.type,
         payload |-> [value |-> valore,
                      unit |-> entry.unit,
                      metadata |-> entry.limits]]

\* A for loop that passes over every other entry.
NextItemSkipping(i) == i + 2

\* The entry the for loop serves after entry i.
NextItem(i) == i + 1

\* client.publish(topic, json.dumps(payload)) returns; its return code is
\* dropped.
PublishReturn ==
    /\ pc = "fanout"
    /\ item <= Len(active_sensors)
    /\ tick_msgs' = Append(tick_msgs, Message(active_sensors[item]))
    /\ last_rc' = IF broker_up THEN "ok" ELSE "no_conn"
    /\ item' = NextItem(item)
    /\ UNCHANGED <<apart, config, prediction_engine, active_sensors, next_obj, pc,
                   error, broker_up, client, start_time, sleep_time,
                   wall_clock, mono_clock, advances, has_reset,
                   steps_this_tick, attempts>>

\* client.publish raises: nothing between it and the end of the script
\* catches anything but KeyboardInterrupt.
PublishRaise ==
    /\ pc = "fanout"
    /\ item <= Len(active_sensors)
    /\ error' = "PublishError"
    /\ pc' = "crashed"
    /\ UNCHANGED <<apart, config, prediction_engine, active_sensors, next_obj,
                   broker_up, client, item, start_time, sleep_time, wall_clock,
                   mono_clock, tick_msgs, last_rc, advances, has_reset,
                   steps_this_tick, attempts>>

\* The for loop is exhausted.
FanoutDone ==
    /\ pc = "fanout"
    /\ item > Len(active_sensors)
    /\ pc' = "elapsed"
    /\ UNCHANGED <<apart, config, prediction_engine, active_sensors, next_obj, error,
                   broker_up, client, item, start_time, sleep_time, wall_clock,
                   mono_clock, tick_msgs, last_rc, advances, has_reset,
                   steps_this_tick, attempts>>

Max(a, b) == IF a >= b THEN a ELSE b

INTERVAL == config.simulation.interval_seconds

\* max(0, INTERVAL - elapsed)
SleepTime(interval, elapsed) == Max(0, interval - elapsed)

\* elapsed = time.time() - start_time; sleep_time = max(0, INTERVAL - elapsed)
ComputeSleep ==
    /\ pc = "elapsed"
    /\ LET elapsed == wall_clock - start_time
       IN  sleep_time' = SleepTime(INTERVAL, elapsed)
    /\ pc' = "sleep"
    /\ UNCHANGED <<apart, config, prediction_engine, active_sensors, next_obj, error,
                   broker_up, client, item, start_time, wall_clock, mono_clock,
                   tick_msgs, last_rc, advances, has_reset, steps_this_tick,
                   attempts>>

\* time.sleep(sleep_time) returns: the next turn of "while True".
SleepDone ==
    /\ pc = "sleep"
    /\ pc' = "tick_start"
    /\ UNCHANGED <<apart, config, prediction_engine, active_sensors, next_obj, error,
                   broker_up, client, item, start_time, sleep_time, wall_clock,
                   mono_clock, tick_msgs, last_rc, advances, has_reset,
                   steps_this_tick, attempts>>

\* KeyboardInterrupt inside the try statement: the except clause is entered.
InterruptCaught ==
    /\ pc \in TryPcs
    /\ pc' = "except"
    /\ UNCHANGED <<apart, config, prediction_engine, active_sensors, next_obj, error,
                   broker_up, client, item, start_time, sleep_time, wall_clock,
                   mono_clock, tick_msgs, last_rc, advances, has_reset,
                   steps_this_tick, attempts>>

\* KeyboardInterrupt anywhere else: nothing catches it.
InterruptUncaught ==
    /\ pc \notin TryPcs \cup EndPcs
    /\ error' = "KeyboardInterrupt"
    /\ pc' = "crashed"
    /\ UNCHANGED <<apart, config, prediction_engine, active_sensors, next_obj,
                   broker_up, client, item, start_time, sleep_time, wall_clock,
                   mono_clock, tick_msgs, last_rc, advances, has_reset,
                   steps_this_tick, attempts>>

\* client.loop_stop() of the except clause
HandlerLoopStop ==
    /\ pc = "except"
    /\ client' = [client EXCEPT !.loop_running = FALSE]
    /\ pc' = "disconnect"
    /\ UNCHANGED <<apart, config, prediction_engine, active_sensors, next_obj, error,
                   broker_up, item, start_time, sleep_time, wall_clock,
                   mono_clock, tick_msgs, last_rc, advances, has_reset,
                   steps_this_tick, attempts>>

\* client.disconnect() of the except clause: the script ends.
HandlerDisconnect ==
    /\ pc = "disconnect"
    /\ client' = [client EXCEPT !.connected = FALSE]
    /\ pc' = "stopped"
    /\ UNCHANGED <<apart, config, prediction_engine, active_sensors, next_obj, error,
                   broker_up, item, start_time, sleep_time, wall_clock,
                   mono_clock, tick_msgs, last_rc, advances, has_reset,
                   steps_this_tick, attempts>>

\* The broker comes up or goes down, whatever the script does.
BrokerToggle ==
    /\ broker_up' = ~broker_up
    /\ UNCHANGED <<apart, config, prediction_engine, active_sensors, next_obj, pc,
                   error, client, item, start_time, sleep_time, wall_clock,
                   mono_clock, tick_msgs, last_rc, advances, has_reset,
                   steps_this_tick, attempts>>

\* Serving the entries takes time: one unit passes on both clocks.
Work ==
    /\ pc = "fanout"
    /\ mono_clock < MaxWork
    /\ mono_clock' = mono_clock + 1
    /\ wall_clock' = wall_clock + 1
    /\ UNCHANGED <<apart, config, prediction_engine, active_sensors, next_obj, pc,
                   error, broker_up, client, item, start_time, sleep_time,
                   tick_msgs, last_rc, advances, has_reset, steps_this_tick,
                   attempts>>

Abs(x) == IF x >= 0 THEN x ELSE 0 - x

\* The system clock is set while the entries are served: time.time() is the
\* wall clock, which an adjustment moves forwards or backwards.
ClockSet ==
    /\ pc = "fanout"
    /\ \E d \in {-1, 1} :
        /\ Abs((wall_clock + d) - mono_clock) <= MaxSkew
        /\ wall_clock' = wall_clock + d
    /\ UNCHANGED <<apart, config, prediction_engine, active_sensors, next_obj, pc,
                   error, broker_up, client, item, start_time, sleep_time,
                   mono_clock, tick_msgs, last_rc, advances, has_reset,
                   steps_this_tick, attempts>>

\* ------------------------------------------------------------ sensor models

\* random.random() and the two state probabilities, in ProbScale-ths of 1.
ProbScale == 4

\* random.random(): a draw from [0, 1).
Dice == 0..(ProbScale - 1)

\* Values a state probability can be given.
Probabilities == 0..ProbScale

\* The fraction of the way from a to b that random.uniform(a, b) returns;
\* floating point rounding can give b itself.
Fractions == 0..ProbScale

\* Standard normal deviates np.random.normal is modelled to draw, in whole
\* standard deviations: typical ones, and one large enough to pass any limit.
NoiseDraws == {-3, 0, 2, 20}

\* What the noise of the sampled wave adds to the RMS of the pure sine, in
\* thousandths of it.
PhysicsDraws == {0, 2, 5}

\* A level of the configuration (hundredths) in thousandths of the unit.
Milli(x) == 10 * x

Min(a, b) == IF a <= b THEN a ELSE b

\* random.uniform(a, b) == a + (b - a) * random()
uniform(a, b, r) == a + ((b - a) * r) \div ProbScale

\* round(x, 2) of a value in thousandths: to the nearest hundredth, a tie
\* to the even one.
Round2(x) ==
    LET q == x \div 10
        m == x % 10
    IN  10 * (IF m < 5 THEN q
              ELSE IF m > 5 THEN q + 1
              ELSE IF q % 2 = 0 THEN q ELSE q + 1)

\* A comparison that lets the draw equal to the probability through.
AtMost(dice, prob) == dice <= prob

\* "dice < normal_state_prob", "dice < warning_state_prob"
Below(dice, prob) == dice < prob

\* GenericSensor._generate_state_based_value: the branch taken and the value
\* returned, or the ValueError np.random.normal raises for a negative scale.
generate_state_based_value(self, normal_state_prob, warning_state_prob, dice, z, r) ==
    LET base_val == Milli(self.base_val)
        warning_threshold == Milli(self.warning_threshold)
        critical_threshold == Milli(self.critical_threshold)
    IN  IF Below(dice, normal_state_prob)
        THEN IF warning_threshold - base_val < 0
             THEN [branch |-> "Normal", raised |-> "ValueError"]
             ELSE LET noise == ((warning_threshold - base_val) * z) \div 10
                      val == base_val + noise
                  IN  [branch |-> "Normal", raised |-> "none",
                       target |-> Min(val, warning_threshold - 100)]
        ELSE IF Below(dice, warning_state_prob)
        THEN [branch |-> "Warning", raised |-> "none",
              target |-> uniform(warning_threshold, critical_threshold, r)]
        ELSE [branch |-> "Critical", raised |-> "none",
              target |-> uniform(critical_threshold, Milli(self.max), r)]

\* GenericSensor.simulate
GenericSensor_simulate(self, normal_state_prob, warning_state_prob, dice, z, r) ==
    LET got == generate_state_based_value(self, normal_state_prob,
                                          warning_state_prob, dice, z, r)
    IN  IF got.raised # "none" THEN got
        ELSE got @@ ("value" :> Round2(got.target))

\* TemperatureSensor.simulate and CurrentSensor.simulate, which are the same.
TemperatureSensor_simulate(self, normal_state_prob, warning_state_prob, dice, z, r) ==
    LET got == generate_state_based_value(self, normal_state_prob,
                                          warning_state_prob, dice, z, r)
    IN  IF got.raised # "none" THEN got
        ELSE got @@ ("value" :> Round2(Max(0, got.target)))

\* VibrationSensor._physics_engine_g_rms of the peak target_rms * sqrt(2):
\* the RMS of the sine is target_rms, to which the sampled noise adds e
\* thousandths; np.random.normal raises for the negative scale of a
\* negative peak.
physics_engine_g_rms(target_rms, e) ==
    IF target_rms < 0
    THEN [raised |-> "ValueError"]
    ELSE [raised |-> "none", rms_g |-> (target_rms * (1000 + e)) \div 1000]

\* VibrationSensor.simulate
VibrationSensor_simulate(self, normal_state_prob, warning_state_prob, dice, r, e) ==
    LET base_val == Milli(self.base_val)
        warning_threshold == Milli(self.warning_threshold)
        critical_threshold == Milli(self.critical_threshold)
        chosen ==
            IF Below(dice, normal_state_prob)
            THEN [branch |-> "Normal",
                  target |-> base_val + uniform(-10, 10, r)]
            ELSE IF Below(dice, warning_state_prob)
            THEN [branch |-> "Warning",
                  target |-> uniform(warning_threshold, critical_threshold, r)]
            ELSE [branch |-> "Critical",
                  target |-> uniform(critical_threshold, Milli(self.max), r)]
        final_val == physics_engine_g_rms(chosen.target, e)
    IN  IF final_val.raised # "none"
        THEN [branch |-> chosen.branch, raised |-> final_val.raised]
        ELSE chosen @@ ("raised" :> "none")
                    @@ ("value" :> Round2(Max(0, final_val.rms_g)))

\* sensor.simulate(normal_state_prob, warning_state_prob) on the class of
\* the object.
SimulateOf(self, normal_state_prob, warning_state_prob, dice, z, r, e) ==
    IF self.class = "VibrationSensor"
    THEN VibrationSensor_simulate(self, normal_state_prob,
                                  warning_state_prob, dice, r, e)
    ELSE TemperatureSensor_simulate(self, normal_state_prob,
                                    warning_state_prob, dice, z, r)

\* main.py:144 on its own: a sensor of the built registry is asked for one
\* reading, with any pair of probabilities the configuration can hold.  A
\* sensor keeps nothing from one call to the next, so one call is looked at.
SensorSimulate ==
    /\ pc = "connect"
    /\ produced = NotProduced
    /\ \E i \in DOMAIN active_sensors :
        /\ active_sensors[i].mode = "standard"
        /\ \E normal_state_prob, warning_state_prob \in Probabilities :
           \E dice \in Dice, z \in NoiseDraws, r \in Fractions,
              e \in PhysicsDraws :
                produced' =
                    SimulateOf(active_sensors[i].obj, normal_state_prob,
                               warning_state_prob, dice, z, r, e)
                    @@ [self |-> active_sensors[i].obj,
                        normal_state_prob |-> normal_state_prob,
                        warning_state_prob |-> warning_state_prob,
                        dice |-> dice]
    /\ UNCHANGED <<service, response, config, prediction_engine,
                   active_sensors, next_obj, pc, error, broker_up, client,
                   item, start_time, sleep_time, wall_clock, mono_clock,
                   tick_msgs, last_rc, advances, has_reset, steps_this_tick,
                   attempts>>

\* -------------------------------------------------------- prediction service

\* The number of readings reshape(1, 50, 3) takes.
SequenceLength == 50

\* Lengths of payload.sequence: empty, one reading, and around the length
\* the model takes.
SequenceLengths ==
    {0, 1, SequenceLength - 1, SequenceLength, SequenceLength + 1}

AssetIds == {"engine_1", "engine_2"}

\* model.predict's scalar, in thousandths of a cycle.
RulValues == {12344, 12345, 12346}

\* The requests pydantic lets through to predict_rul: an asset, a sequence
\* of so many readings whose numbers the scaler accepts or not (a NaN or an
\* infinity raises in scaler.transform), for which the model's inference
\* raises or returns rul_value.
Requests ==
    [asset_id : AssetIds, length : SequenceLengths, finite : BOOLEAN,
     inference_raises : BOOLEAN, rul_value : RulValues]

\* HTTPException(status_code, detail); a detail is a sequence of the pieces
\* of text it is made of.
HTTPException(status_code, detail) ==
    [class |-> "HTTPException", status_code |-> status_code, detail |-> detail]

\* The classes "except Exception" catches: HTTPException derives from
\* Exception, as ValueError and the inference errors do.
Exceptions == {"HTTPException", "ValueError", "InferenceError"}

\* "except Exception as e"
Catches(e) == e.class \in Exceptions

\* str(e) of a raised exception: the text its class gives it.
StrOf(e) == <<"str">> \o <<e.class>> \o e.detail

\* The try block of predict_rul: what it raises, or the response it returns.
PredictBody(payload) ==
    IF payload.length # SequenceLength
    THEN [raised |-> HTTPException(400,
                <<"Input sequence must contain exactly 50 readings.">>)]
    ELSE IF ~payload.finite
    THEN [raised |-> [class |-> "ValueError", detail |-> <<"scaler.transform">>]]
    ELSE IF payload.inference_raises
    THEN [raised |-> [class |-> "InferenceError",
                      detail |-> <<"model.predict">>]]
    ELSE [raised |-> [class |-> "none"],
          returned |-> [asset_id |-> payload.asset_id,
                        predicted_rul |-> Round2(payload.rul_value),
                        status |-> "OK"]]

\* predict_rul: the status code and body FastAPI answers with, and whether
\* model.predict was reached.
predict_rul(svc, payload) ==
    IF ~svc.model \/ ~svc.scaler
    THEN [status_code |-> 503, detail |-> <<"Model not loaded">>,
          predicted |-> FALSE]
    ELSE LET got == PredictBody(payload)
         IN  IF got.raised.class = "none"
             THEN [status_code |-> 200, body |-> got.returned,
                   predicted |-> TRUE]
             ELSE IF Catches(got.raised)
             THEN [status_code |-> 500,
                   detail |-> <<"Prediction error: ", StrOf(got.raised)>>,
                   predicted |-> got.raised.class = "InferenceError"]
             ELSE [status_code |-> got.raised.status_code,
                   detail |-> got.raised.detail,
                   predicted |-> FALSE]

\* The startup event load_model: each file is there and loads, or is not
\* there, or its load raises, which leaves the global None.
load_model ==
    /\ ~service.started
    /\ \E m, s \in BOOLEAN :
        service' = [started |-> TRUE, model |-> m, scaler |-> s]
    /\ UNCHANGED <<produced, response, config, prediction_engine,
                   active_sensors, next_obj, pc, error, broker_up, client,
                   item, start_time, sleep_time, wall_clock, mono_clock,
                   tick_msgs, last_rc, advances, has_reset, steps_this_tick,
                   attempts>>

\* POST /predict-rul with a payload that passed validation.
PredictRul ==
    /\ service.started
    /\ \E payload \in Requests :
        response' = predict_rul(service, payload)
                        @@ [payload |-> payload,
                            loaded |-> service.model /\ service.scaler]
    /\ UNCHANGED <<produced, service, config, prediction_engine,
                   active_sensors, next_obj, pc, error, broker_up, client,
                   item, start_time, sleep_time, wall_clock, mono_clock,
                   tick_msgs, last_rc, advances, has_reset, steps_this_tick,
                   attempts>>

\* A client of the engine calls step(): the engine on its own.
EngineStep ==
    /\ StepEngine
    /\ UNCHANGED <<apart, config, active_sensors, next_obj, pc, error, broker_up,
                   client, item, start_time, sleep_time, wall_clock,
                   mono_clock, tick_msgs, last_rc, steps_this_tick, attempts>>

\* Sections 2 and 3 of the script.
Startup ==
    \/ Build
    \/ ConnectOk
    \/ ConnectFail
    \/ RetryWake
    \/ LoopStart
    \/ EnterTry

\* One tick of "while True" after its first line.
Tick ==
    \/ LoopStep
    \/ PublishReturn
    \/ PublishRaise
    \/ FanoutDone
    \/ ComputeSleep
    \/ SleepDone

\* The except clause.
Handler ==
    \/ HandlerLoopStop
    \/ HandlerDisconnect

\* What happens to the script from outside.
Environment ==
    \/ InterruptCaught
    \/ InterruptUncaught
    \/ BrokerToggle

Next ==
    \/ Startup
    \/ (TickBudgetLeft /\ TickStart)
    \/ Tick
    \/ Handler
    \/ Environment

\* The whole script, for MaxTicks ticks of the publish loop, on a clock that
\* stands still while a tick is served.
Spec == Init /\ [][Next]_vars

\* The whole script on the designated motor alone, where it never stops of
\* its own accord between two of its steps and every sleep returns.
LiveInit == InitWith(LiveConfigs, Draws, BOOLEAN)

LiveSpec ==
    /\ LiveInit
    /\ [][Next]_vars
    /\ WF_vars(Startup \/ (TickBudgetLeft /\ TickStart) \/ Tick \/ Handler)

\* The engine alone, stepped by a client for as long as the client likes.
EngineInit == InitWith(LongRunConfigs, Draws, {TRUE})

EngineNext == EngineStep

EngineSpec == EngineInit /\ [][EngineNext]_vars

\* The topology builder alone, over every topology up to MaxCount in each
\* level and every template of up to MaxTemplate types.
BuildInit == InitWith(TopologyConfigs, {CHOOSE d \in Draws : TRUE}, {TRUE})

BuildNext == Build

BuildSpec == BuildInit /\ [][BuildNext]_vars

\* The loop with time passing and the system clock being set, the broker up.
TimingInit == InitWith(TimingConfigs, Draws, {TRUE})

TimingNext ==
    \/ Build
    \/ ConnectOk
    \/ LoopStart
    \/ EnterTry
    \/ (TickBudgetLeft /\ TickStart)
    \/ LoopStep
    \/ PublishReturn
    \/ FanoutDone
    \/ ComputeSleep
    \/ SleepDone
    \/ Work
    \/ ClockSet

TimingSpec == TimingInit /\ [][TimingNext]_vars

\* The whole script for as many ticks as it runs, through the ends of
\* lifecycles, on one configuration with the broker up.
LongRunInit == InitWith(LongRunConfigs, Draws, {TRUE})

LongRunNext ==
    \/ Build
    \/ ConnectOk
    \/ LoopStart
    \/ EnterTry
    \/ TickStart
    \/ Tick
    \/ Handler
    \/ InterruptCaught
    \/ InterruptUncaught

LongRunSpec == LongRunInit /\ [][LongRunNext]_vars

\* The sensors alone: the registry of the designated motor and one more is
\* built, and the sensors of the other motor are asked for readings.
SensorInit == InitWith(LongRunConfigs, {CHOOSE d \in Draws : TRUE}, {TRUE})

SensorNext ==
    \/ Build
    \/ SensorSimulate

SensorSpec == SensorInit /\ [][SensorNext]_vars

\* The prediction service alone: it starts, then answers requests.
ServiceInit == InitWith(LiveConfigs, {CHOOSE d \in Draws : TRUE}, {TRUE})

ServiceNext ==
    \/ load_model
    \/ PredictRul

ServiceSpec == ServiceInit /\ [][ServiceNext]_vars

\* ------------------------------------------------------------------ claims

\* C1: after n step() calls since the most recent reset, the engine's
\* current_tick equals n mod total_life; a fresh engine that no client has
\* stepped has tick 0, and the step that restarts the lifecycle leaves tick 1.
C1_TickIsAdvancesModLife ==
    prediction_engine.current_tick = advances % prediction_engine.total_life

\* C2: an interrupt never leaves a partial tick: when the except clause has
\* been entered, the tick it cut has published either nothing or one
\* message for every registry entry.
C2_NoPartialTick ==
    pc \in {"except", "disconnect", "stopped"}
        => Len(tick_msgs) \in {0, Len(active_sensors)}

\* Whether the template has an entry of a type create_sensor does not know.
HasUnknownType(cfg) ==
    \E k \in DOMAIN cfg.templates.standard_motor :
        cfg.templates.standard_motor[k].type \notin KnownTypes

\* C3: with an entry of an unrecognized type in the template the script
\* fails while the topology is built: the publish loop is never entered and
\* no message of the unrecognized type is ever published.
C3_UnknownTypeFailsAtBuild ==
    HasUnknownType(config)
        => /\ pc \notin {"enter_try"} \cup TryPcs
           /\ \A i \in DOMAIN tick_msgs : tick_msgs[i].type \in KnownTypes

\* The topics of a registry or of the publish calls of a tick, in order.
Topics(seq) == [i \in DOMAIN seq |-> seq[i].topic]

\* The script has built its registry and gone on.
Built == pc \notin {"build", "crashed"}

\* The entries of the registry bound to the engine.
EngineBound == { i \in DOMAIN active_sensors :
                    active_sensors[i].mode = "prediction_engine" }

\* The asset an entry belongs to: its topic without "/" and the type.
AssetOf(entry) == SubSeq(entry.topic, 1, Len(entry.topic) - 2)

\* The prefixes are the ones PREDICTION_ID is written with.
PrefixesOfPredictionId(cfg) ==
    /\ cfg.topology.sectors.prefix = "sector"
    /\ cfg.topology.lines_per_sector.prefix = "line"
    /\ cfg.topology.assets_per_line.prefix = "engine"

\* The types of the template, in order.
TemplateTypes(cfg) ==
    [k \in DOMAIN cfg.templates.standard_motor |->
        cfg.templates.standard_motor[k].type]

\* Every entry not bound to the engine holds a sensor object of its own,
\* and every bound entry holds the engine.
OwnSensors ==
    /\ \A i \in EngineBound : active_sensors[i].obj = EngineRef
    /\ \A i \in DOMAIN active_sensors \ EngineBound :
        /\ active_sensors[i].mode = "standard"
        /\ active_sensors[i].obj.class
             \in {"VibrationSensor", "TemperatureSensor", "CurrentSensor"}
        /\ \A j \in DOMAIN active_sensors \ EngineBound :
             active_sensors[i].obj.id = active_sensors[j].obj.id => i = j

\* C4: whatever the prefixes, the registry built from the standard template
\* binds exactly one asset to the engine, with exactly its vibration,
\* temperature and current entries, and every other entry owns its sensor.
C4_ExactlyOneAssetBound ==
    (Built /\ TemplateTypes(config) = StandardTypes) =>
        /\ Cardinality({ AssetOf(active_sensors[i]) : i \in EngineBound }) = 1
        /\ Cardinality(EngineBound) = 3
        /\ { active_sensors[i].type : i \in EngineBound } = KnownTypes
        /\ OwnSensors

\* What the builder does bind: with the prefixes sector, line and engine
\* exactly one asset, the first, and the bound entries are exactly the
\* template's entries of that asset; with any other prefixes no entry; in
\* both cases every other entry owns its sensor.
BoundForPredictionIdPrefixes ==
    Built =>
        /\ PrefixesOfPredictionId(config) =>
            /\ { AssetOf(active_sensors[i]) : i \in EngineBound } = {PREDICTION_ID}
            /\ EngineBound = 1..Len(config.templates.standard_motor)
            /\ [i \in EngineBound |-> active_sensors[i].type] = TemplateTypes(config)
        /\ ~PrefixesOfPredictionId(config) => EngineBound = {}
        /\ OwnSensors

\* The position in the registry of template entry k of asset (s, l, a).
Position(cfg, s, l, a, k) ==
    (((s - 1) * cfg.topology.lines_per_sector.count + (l - 1))
        * cfg.topology.assets_per_line.count + (a - 1))
        * Len(cfg.templates.standard_motor) + k

\* C5: the builder gives S*L*A*K entries, their topics
\* "{sector_prefix}_{s}/{line_prefix}_{l}/{asset_prefix}_{a}/{type}" are
\* pairwise distinct and stand in the order of (s, l, a, template position).
C5_TopicsCountedDistinctOrdered ==
    Built =>
        LET t == config.topology
            K == Len(config.templates.standard_motor)
        IN  /\ Len(active_sensors)
                 = t.sectors.count * t.lines_per_sector.count
                     * t.assets_per_line.count * K
            /\ \A i, j \in DOMAIN active_sensors :
                 active_sensors[i].topic = active_sensors[j].topic => i = j
            /\ \A s \in 1..t.sectors.count, l \in 1..t.lines_per_sector.count,
                  a \in 1..t.assets_per_line.count, k \in 1..K :
                 active_sensors[Position(config, s, l, a, k)].topic
                   = <<t.sectors.prefix, "_", IntToStr(s), "/",
                       t.lines_per_sector.prefix, "_", IntToStr(l), "/",
                       t.assets_per_line.prefix, "_", IntToStr(a), "/",
                       TemplateTypes(config)[k]>>

\* Two sectors of two lines of two assets with a template of three types:
\* twenty-four entries.
C5_Witness ==
    /\ Built
    /\ config.topology.sectors.count = 2
    /\ config.topology.lines_per_sector.count = 2
    /\ config.topology.assets_per_line.count = 2
    /\ Len(config.templates.standard_motor) = 3
    /\ Len(active_sensors) = 24

\* C6: a publish call that fails, by returning an error code or by raising,
\* never ends the script: the loop goes on.
C6_PublishFailureKeepsLoop ==
    ~(pc = "crashed" /\ error = "PublishError")

\* C7: in every completed tick exactly one message is published per registry
\* entry, to the entry's topic and in registry order, none skipped and none
\* twice; while a tick is served the entries before the current one have
\* been published; the registry is the one the configuration gives, in
\* every tick.
C7_OneMessagePerEntry ==
    /\ pc \in {"elapsed", "sleep"} => Topics(tick_msgs) = Topics(active_sensors)
    /\ pc = "fanout" =>
        /\ item \in 1..(Len(active_sensors) + 1)
        /\ Topics(tick_msgs) = SubSeq(Topics(active_sensors), 1, item - 1)
    /\ pc \in TryPcs =>
        Topics(active_sensors) = Topics(BuildTopology(config, 0).active_sensors)

\* A second tick has been completed on a registry of two motors while the
\* broker was refusing publishes.
C7_Witness ==
    /\ pc = "sleep"
    /\ prediction_engine.current_tick = 3
    /\ Len(active_sensors) = 6
    /\ Len(tick_msgs) = 6
    /\ last_rc = "no_conn"

\* The publish calls of the current tick that were served by the engine.
EngineMsgs == { i \in DOMAIN tick_msgs : tick_msgs[i].mode = "prediction_engine" }

\* C8: in every tick the loop steps the engine exactly once, before any
\* entry is served, and the engine does not change while the entries are
\* served: every message of the designated asset carries the value the
\* engine holds, and the three values come from the one fault progression of
\* that step (its tick, total_life and exponent).
C8_OneAdvancePerTick ==
    /\ pc = "step" => steps_this_tick = 0 /\ tick_msgs = <<>>
    /\ pc \in {"fanout", "elapsed", "sleep"} =>
        /\ steps_this_tick = 1
        /\ \A i \in EngineMsgs :
            /\ tick_msgs[i].payload.value
                 = get_value(prediction_engine, tick_msgs[i].type)
            /\ tick_msgs[i].type \in KnownTypes =>
                 tick_msgs[i].payload.value.progression
                   = fault_progression(prediction_engine.current_tick - 1,
                                       prediction_engine.total_life,
                                       prediction_engine.exponent)

\* The tick whose step restarted the lifecycle has been completed.
C8_Witness ==
    /\ pc = "sleep"
    /\ has_reset
    /\ advances = 1
    /\ Cardinality(EngineMsgs) = 3
    /\ Len(tick_msgs) = Len(active_sensors)

\* Nothing of the loop has happened: no step() by a client of the engine,
\* no publish call.
NothingPublished == advances = 0 /\ steps_this_tick = 0 /\ tick_msgs = <<>>

\* C9: every failed connect attempt is followed by a sleep of RETRY_DELAY
\* and, unless the script is interrupted, by another attempt, however many
\* have failed; before an attempt has succeeded the engine is not stepped
\* and nothing is published; and if the broker comes up for good, the
\* script enters the publish loop unless an error or an interrupt ended it.
C9_RetryUntilConnected ==
    /\ [](pc = "retry_sleep" => sleep_time = RETRY_DELAY)
    /\ []((~client.connected /\ pc # "stopped") => NothingPublished)
    /\ (pc = "retry_sleep") ~> (pc = "connect" \/ error = "KeyboardInterrupt")
    /\ (<>[]broker_up) => <>(pc \in TryPcs \/ error # "none")

\* The script serves its registry after MaxAttempts failed attempts.
C9_Witness ==
    /\ attempts = MaxAttempts
    /\ client.connected
    /\ pc = "fanout"
    /\ Len(tick_msgs) > 0

\* C10: the sleep that ends a tick is max(0, INTERVAL - elapsed) for the
\* time that truly passed since the tick started: never negative, never
\* longer than INTERVAL, 0 when serving took INTERVAL or more, and otherwise
\* what makes the tick INTERVAL long from start to start.
C10_SleepHoldsPeriod ==
    pc = "sleep"
        => /\ sleep_time = Max(0, INTERVAL - mono_clock)
           /\ 0 <= sleep_time /\ sleep_time <= INTERVAL
           /\ mono_clock >= INTERVAL => sleep_time = 0
           /\ mono_clock < INTERVAL => mono_clock + sleep_time = INTERVAL

\* The script has ended because of a KeyboardInterrupt: through the except
\* clause, or with the interrupt uncaught.
EndedByInterrupt ==
    pc = "stopped" \/ (pc = "crashed" /\ error = "KeyboardInterrupt")

\* C11: once client.connect has returned, an interrupt at any point of the
\* script ends it with the connection released: the client's loop stopped
\* and disconnect called.
C11_InterruptReleasesConnection ==
    EndedByInterrupt => ~client.connected /\ ~client.loop_running

\* A sensor has been asked for a reading with probabilities in order.
ProducedInOrder ==
    /\ produced.branch # "none"
    /\ produced.normal_state_prob <= produced.warning_state_prob

\* The target chosen lies between two levels of the configuration.
TargetWithin(lo, hi) ==
    produced.raised = "none"
        /\ Milli(lo) <= produced.target /\ produced.target <= Milli(hi)

\* C12: for every sensor class and probabilities p_n <= p_w <= 1 the branch
\* follows from the one draw d: Normal iff d < p_n; Warning iff
\* p_n <= d < p_w, with the target between the warning and the critical
\* threshold; Critical iff d >= p_w, with the target between the critical
\* threshold and max.  With p_n = p_w = 0 every call is Critical.
C12_BranchFromOneDraw ==
    ProducedInOrder =>
        LET d == produced.dice
            p_n == produced.normal_state_prob
            p_w == produced.warning_state_prob
            self == produced.self
        IN  /\ produced.branch = "Normal" <=> d < p_n
            /\ produced.branch = "Warning" <=> (p_n <= d /\ d < p_w)
            /\ produced.branch = "Critical" <=> d >= p_w
            /\ produced.branch = "Warning" =>
                TargetWithin(self.warning_threshold, self.critical_threshold)
            /\ produced.branch = "Critical" =>
                TargetWithin(self.critical_threshold, self.max)
            /\ (p_n = 0 /\ p_w = 0) =>
                /\ produced.branch = "Critical"
                /\ produced.target >= Milli(self.critical_threshold)

\* A vibration sensor asked with both probabilities 0 has taken the
\* Critical branch.
C12_Witness ==
    /\ ProducedInOrder
    /\ produced.self.class = "VibrationSensor"
    /\ produced.normal_state_prob = 0 /\ produced.warning_state_prob = 0
    /\ produced.branch = "Critical"
    /\ produced.target > Milli(produced.self.critical_threshold)

\* C13: with normal_probability 1, for every sensor class and every base
\* value the builder assigns, every call takes the Normal branch and its
\* target is at most warning_threshold - 0.1, so never above the warning
\* threshold.
C13_NormalTargetClamped ==
    (produced.branch # "none" /\ produced.normal_state_prob = ProbScale) =>
        /\ produced.branch = "Normal"
        /\ produced.raised = "none"
        /\ produced.target <= Milli(produced.self.warning_threshold) - 100

\* C14: with model and scaler loaded, a request whose sequence does not hold
\* exactly 50 readings is answered 400 and no prediction is computed; 500
\* is answered only when normalization or inference failed; 503 only when
\* the model or the scaler is not loaded.
C14_WrongLengthIs400 ==
    response.status_code # 0 =>
        /\ (response.loaded /\ response.payload.length # SequenceLength) =>
            /\ response.status_code = 400
            /\ response.detail
                = <<"Input sequence must contain exactly 50 readings.">>
            /\ ~response.predicted
        /\ response.status_code = 500 =>
            /\ response.payload.length = SequenceLength
            /\ ~response.payload.finite
                \/ response.payload.inference_raises
        /\ response.status_code = 503 => ~response.loaded

\* The tick the cached values were computed from.
TickUsed == prediction_engine.current_values.vibration.progression.tick

\* A client's step() has just restarted the lifecycle.
JustReset == has_reset /\ advances = 1

\* C15: the step() that finds the lifecycle over leaves the values of tick 0
\* in the cache and the tick at 1; in every lifecycle the k-th step() of a
\* client hands out the values of tick k - 1, so that the ticks 0, 1, ...,
\* total_life - 1 are each used by exactly one step().
C15_ResetEndsAtTickOne ==
    /\ JustReset =>
        /\ prediction_engine.current_tick = 1
        /\ TickUsed = 0
    /\ advances >= 1 =>
        /\ TickUsed = advances - 1
        /\ advances <= prediction_engine.total_life

\* The state a restarting step() leaves, on its own.
ResetLeavesTickOne ==
    JustReset => prediction_engine.current_tick = 1 /\ TickUsed = 0

\* The fault progression the cached values were computed from, for each of
\* the three signals.
ProgressionsUsed ==
    { prediction_engine.current_values[k].progression :
        k \in {"vibration", "temperature", "current"} }

\* C16: in every state of the engine, after construction and after any
\* number of steps and resets, 800 <= total_life < 2000 and
\* 0 <= current_tick <= total_life, and the fault progression was computed
\* from a tick with 0 <= tick < total_life of the current lifecycle, under a
\* positive exponent, so that it lies in [0, 1]; the values a reset computes
\* on the way, whatever it draws, come from tick 0 of the new lifecycle.
C16_EngineInRange ==
    /\ LifeMin <= prediction_engine.total_life
    /\ prediction_engine.total_life < LifeMax
    /\ 0 <= prediction_engine.current_tick
    /\ prediction_engine.current_tick <= prediction_engine.total_life
    /\ \A fp \in ProgressionsUsed :
        /\ 0 <= fp.tick /\ fp.tick < fp.total_life
        /\ fp.total_life = prediction_engine.total_life
        /\ fp.exponent >= ExponentMin /\ fp.exponent <= ExponentMax
    /\ \A d \in Draws :
        LET first == reset_lifecycle(prediction_engine, d).current_values
        IN  \A k \in {"vibration", "temperature", "current"} :
                /\ first[k].progression.tick = 0
                /\ first[k].progression.total_life = d.total_life

\* The engine stands at the end of a lifecycle that a reset began: the tick
\* has reached total_life, and the last values came from total_life - 1.
C16_Witness ==
    /\ has_reset
    /\ prediction_engine.current_tick = prediction_engine.total_life
    /\ TickUsed = prediction_engine.total_life - 1

====
